---- MODULE Spec2Model ----
(***************************************************************************)
(* File/folder lifecycle manager of the digital-download admin app.        *)
(*                                                                         *)
(* Two stores: the relational metadata store (File and Folder tables,      *)
(* reached through prisma) and the blob store (the uploads directory,      *)
(* reached through files.server.js).  The route's action and the download  *)
(* loader are async functions: every await is a point where another        *)
(* request may run, so each request is a small process whose steps are the *)
(* code between two awaits.                                                *)
(***************************************************************************)
EXTENDS Integers, Sequences, FiniteSets, TLC

\* ------------------------------------------------------------------ bounds
MaxFiles == 2
MaxFolders == 2
MaxClock == 1
MaxItems == 2
MaxRequests == 4
MaxConcRequests == 3
MaxSetupRequests == 2
MaxRaceRequests == 2

\* ------------------------------------------------------------------ values
Null == 0
Shops == {"A", "B"}
Reqs == {1, 2}
FolderIds == 1..MaxFolders

DefaultMime == "application/octet-stream"

\* The File objects a client may post: name, type ("" when the browser gives
\* none) and content.
ClientFiles ==
    { [name |-> <<"a">>, type |-> "text/plain", body |-> <<1>>],
      [name |-> <<"a">>, type |-> "",           body |-> <<1, 2>>] }

NoClientFile == [name |-> <<>>, type |-> "", body |-> <<>>]

\* The folder names a client may post: none, blank, and names with and without
\* blanks around them.
NameInputs == {<<>>, <<" ", " ">>, <<"n">>, <<" ", "n", " ">>}

SeqsUpTo(S, n) == UNION {[1..k -> S] : k \in 0..n}

VARIABLES
    files,      \* File table: id -> record, DOMAIN = the existing rows
    folders,    \* Folder table: id -> record
    disk,       \* uploads directory: path -> bytes
    uploadDir,  \* whether the uploads directory exists
    now,        \* Date.now() as saveFile read it last
    nextFileId, \* ids are generated, never reused
    nextFolderId,
    req,        \* per request slot: position and locals of the handler
    started,    \* number of requests received so far
    mode,       \* "seq": one request at a time; "conc": requests overlap;
                \* "race": requests overlap once the first ones have run alone
    last,       \* the response the latest step sent, if it ended a request
    sent,       \* history: for each existing File row, the File object uploaded
    faulted     \* history: whether a store or filesystem call has failed so far

vars == <<files, folders, disk, uploadDir, now, nextFileId, nextFolderId, req,
          started, mode, last, sent, faulted>>

\* ------------------------------------------------------------ pure helpers
DigitChar == <<"0", "1", "2", "3", "4", "5", "6", "7", "8", "9">>

RECURSIVE Digits(_)
Digits(n) ==
    IF n < 10 THEN <<DigitChar[n + 1]>>
    ELSE Digits(n \div 10) \o <<DigitChar[(n % 10) + 1]>>

\* `${Date.now()}-${file.name}`
StorageKey(t, name) == Digits(t) \o <<"-">> \o name

\* join(UPLOAD_DIR, filename)
PathOf(filename) == <<"uploads", "/">> \o filename

\* String.prototype.trim
RECURSIVE TrimStart(_)
TrimStart(s) ==
    IF s # <<>> /\ Head(s) = " " THEN TrimStart(Tail(s)) ELSE s

RECURSIVE TrimEnd(_)
TrimEnd(s) ==
    IF s # <<>> /\ s[Len(s)] = " " THEN TrimEnd(SubSeq(s, 1, Len(s) - 1)) ELSE s

\* Faulty variant: the name is taken as posted
TrimNone(s) == s

Trim(s) == TrimEnd(TrimStart(s))

Remove(f, k) == [x \in DOMAIN f \ {k} |-> f[x]]
Put(f, k, v) == [x \in DOMAIN f \cup {k} |-> IF x = k THEN v ELSE f[x]]

\* ------------------------------------------------------- metadata store
\* Faulty variant: the lookup without its shop filter
FindFirstFileAnyShop(id, shop) ==
    {f \in DOMAIN files : f = id}

\* prisma.file.findFirst({ where: { id, shop } }): the matching rows (0 or 1)
FindFirstFile(id, shop) ==
    {f \in DOMAIN files : f = id /\ files[f].shop = shop}

\* prisma.folder.findFirst({ where: { id, shop }, include: { files: true } })
FindFirstFolder(id, shop) ==
    {d \in DOMAIN folders : d = id /\ folders[d].shop = shop}

\* include: { files: true }: the rows whose folderId is the folder
FilesOfFolder(d) == {f \in DOMAIN files : files[f].folderId = d}

\* Faulty variant: no foreign key on File.folderId
FkOff(folderId) == TRUE

\* File_folderId_fkey: a non-null folderId must name an existing Folder row
FkOk(folderId) == folderId = Null \/ folderId \in DOMAIN folders

\* Faulty variant: a foreign key without ON DELETE CASCADE
CascadeNone(d) == files

\* ON DELETE CASCADE: deleting a Folder row deletes the File rows naming it
CascadeDelete(d) ==
    [f \in DOMAIN files \ FilesOfFolder(d) |-> files[f]]

\* prisma.file.findMany({ where: { shop } }): the unrestricted listing
ListFilesAll(shop) == {f \in DOMAIN files : files[f].shop = shop}

\* prisma.file.findMany({ where: { shop, folderId } }): one folder's files, or
\* the root's (folderId null)
ListFilesIn(shop, folderId) ==
    {f \in DOMAIN files : files[f].shop = shop /\ files[f].folderId = folderId}

\* prisma.folder.findMany({ where: { shop }, include: { files: { select: { id } } } }):
\* the shop's folders; each comes with FilesOfFolder of it
ListFolders(shop) == {d \in DOMAIN folders : folders[d].shop = shop}

\* the folder-files loader: prisma.folder.findFirst({ where: { id, shop },
\* include: { files } }), then folder.files (no folder: a 404, here the empty set)
FolderFiles(id, shop) ==
    IF FindFirstFolder(id, shop) = {} THEN {} ELSE FilesOfFolder(id)

\* the rows of a set in some order (include returns them in no stated order)
SeqOfSet(S) ==
    {s \in [1..Cardinality(S) -> S] : \A i, j \in DOMAIN s : i # j => s[i] # s[j]}

\* ------------------------------------------------------------ blob store
\* Faulty variant: deleteFile without its existsSync guard
ExistsAlways(d, path) == TRUE

\* existsSync(path)
ExistsSync(d, path) == path \in DOMAIN d

\* `for (const file of folder.files) deleteFile(file.path)`: deleteFile returns
\* without awaiting the filesystem when existsSync is false, so the loop runs on
\* to the first path that exists, whose unlink it then awaits.
RECURSIVE SkipMissing(_, _)
SkipMissing(d, paths) ==
    IF paths = <<>> \/ ExistsSync(d, Head(paths)) THEN paths
    ELSE SkipMissing(d, Tail(paths))


\* ----------------------------------------------------------- request slots
Idle == [pc |-> "idle", after |-> "idle", intent |-> "none", shop |-> "A",
         fileId |-> Null, folderId |-> Null, from |-> Null, name |-> <<>>,
         file |-> NoClientFile, ids |-> <<>>, items |-> <<>>, listed |-> {},
         paths |-> <<>>, path |-> <<>>, blobErr |-> FALSE, storeErr |-> FALSE,
         result |-> "none",
         body |-> <<>>, ctype |-> "", clen |-> 0]

Free(r) == req[r].pc = "idle"

InFlight(intent) == Cardinality({r \in Reqs : ~Free(r) /\ req[r].intent = intent})

\* identifiers a caller may send: those handed out so far and one never handed out
KnownFileIds == 1..(IF nextFileId <= MaxFiles THEN nextFileId ELSE MaxFiles)
KnownFolderIds == 1..(IF nextFolderId <= MaxFolders THEN nextFolderId ELSE MaxFolders)

\* the shops a request may come from: tenants are interchangeable, so the first
\* request of a run is called A's; the "race" runs are those of one shop
ShopsNow == IF started = 0 \/ mode = "race" THEN {"A"} ELSE Shops

\* the requests a run receives: MaxRequests one after the other, or
\* MaxConcRequests that may overlap, or MaxSetupRequests one after the other
\* and then MaxRaceRequests that may overlap
Budget ==
    IF mode = "seq" THEN MaxRequests
    ELSE IF mode = "conc" THEN MaxConcRequests
    ELSE MaxSetupRequests + MaxRaceRequests

\* the next request is handled with no other request in flight
Alone == mode = "seq" \/ (mode = "race" /\ started <= MaxSetupRequests)

\* slot r may take a new request
MayStart(r) ==
    /\ Free(r)
    /\ started < Budget
    /\ Alone => r = 1 /\ \A o \in Reqs : Free(o)

\* what a finished request leaves in `last`: what it was and how it ended
Outcome(q, res) ==
    [Idle EXCEPT !.pc = "done", !.intent = q.intent, !.shop = q.shop,
                 !.fileId = q.fileId, !.folderId = q.folderId, !.items = q.items,
                 !.from = q.from, !.name = q.name,
                 !.blobErr = q.blobErr, !.result = res, !.body = q.body,
                 !.ctype = q.ctype, !.clen = q.clen]

\* a call of request q failed in the step: a blob or store error it caught, or
\* the throw of a store or filesystem call that ends it (a throw before the
\* first such call is JSON.parse's)
Failed(q, res) ==
    q.blobErr \/ q.storeErr \/ (res = "throw" /\ q.pc # "idle")

\* request r returns or throws
Finish(r, q, res) ==
    /\ req' = [req EXCEPT ![r] = Idle]
    /\ last' = Outcome(q, res)
    /\ faulted' = (faulted \/ Failed(q, res))

\* request r goes on to its next await
Goto(r, q) ==
    /\ req' = [req EXCEPT ![r] = q]
    /\ last' = Idle
    /\ faulted' = (faulted \/ Failed(q, "none"))

\* the step is one of request r
StepOf(r) == req'[r] # req[r]

Init ==
    /\ files = <<>>
    /\ folders = <<>>
    /\ disk = <<>>
    /\ uploadDir = FALSE
    /\ now = 0
    /\ nextFileId = 1
    /\ nextFolderId = 1
    /\ req = [r \in Reqs |-> Idle]
    /\ started = 0
    /\ last = Idle
    /\ sent = <<>>
    /\ faulted = FALSE

InitSeq == Init /\ mode = "seq"
InitConc == Init /\ mode = "conc"
InitRace == Init /\ mode = "race"

\* ensureUploadDir's existsSync, and what follows it: when the directory is
\* there the handler runs on to its first await of a store (q) or returns at
\* once (res); when it is not, the handler awaits mkdir first
Enter(r, q, res) ==
    IF uploadDir
    THEN IF res = "none" THEN Goto(r, q) ELSE Finish(r, q, res)
    ELSE Goto(r, [q EXCEPT !.after = q.pc, !.pc = "mkdir", !.result = res])

\* A request arrives: authenticate.admin resolves the shop, ensureUploadDir
\* runs, formData is read and the intent is dispatched; the handler runs to its
\* first await of a store, or returns at once (res says how) when an input is
\* missing.
StartAction(r, q, res) ==
    /\ MayStart(r)
    /\ started' = started + 1
    /\ Enter(r, q, res)
    /\ UNCHANGED <<files, folders, disk, uploadDir, now, nextFileId, nextFolderId,
                   mode, sent>>

\* Faulty variant: mkdir without { recursive: true } throws when the directory
\* is there
MkdirNotRecursive(r) ==
    /\ req[r].pc = "mkdir"
    /\ uploadDir' = TRUE
    /\ now' = now
    /\ LET q == [req[r] EXCEPT !.pc = req[r].after, !.after = "idle",
                               !.result = "none"]
       IN  IF uploadDir THEN Finish(r, q, "throw")
           ELSE IF req[r].result # "none" THEN Finish(r, q, req[r].result)
           ELSE Goto(r, q)
    /\ UNCHANGED <<files, folders, disk, nextFileId, nextFolderId, started, mode, sent>>

\* ensureUploadDir: mkdir(UPLOAD_DIR, { recursive: true }) creates the
\* directory, or does nothing when another request created it meanwhile; the
\* handler then goes on as StartAction says (an upload reads Date.now() there)
Mkdir(r) ==
    /\ req[r].pc = "mkdir"
    /\ uploadDir' = TRUE
    /\ LET q == [req[r] EXCEPT !.pc = req[r].after, !.after = "idle",
                               !.result = "none"]
       IN  IF req[r].result # "none"
           THEN now' = now /\ Finish(r, q, req[r].result)
           ELSE IF q.pc = "up_write"
           THEN \E t \in now..MaxClock :
                   /\ now' = t
                   /\ Goto(r, [q EXCEPT !.path = PathOf(StorageKey(t, q.file.name))])
           ELSE now' = now /\ Goto(r, q)
    /\ UNCHANGED <<files, folders, disk, nextFileId, nextFolderId, started, mode, sent>>

\* return { error: "Invalid intent" }
StartInvalid(r) ==
    \E s \in ShopsNow :
        StartAction(r, [Idle EXCEPT !.intent = "invalid", !.shop = s], "Invalid intent")

\* ------------------------------------------------------------ create-folder
StartCreateFolder(r) ==
    /\ nextFolderId + InFlight("create-folder") <= MaxFolders
    /\ \E s \in ShopsNow, nm \in NameInputs :
        LET q == [Idle EXCEPT !.intent = "create-folder", !.shop = s, !.name = nm]
        IN  IF Trim(nm) = <<>>
            THEN StartAction(r, q, "Folder name is required")
            ELSE StartAction(r, [q EXCEPT !.pc = "cf_create"], "none")

\* prisma.folder.create
CreateFolder(r) ==
    /\ req[r].pc = "cf_create"
    /\ folders' = Put(folders, nextFolderId,
                      [name |-> Trim(req[r].name), shop |-> req[r].shop])
    /\ nextFolderId' = nextFolderId + 1
    /\ Finish(r, [req[r] EXCEPT !.folderId = nextFolderId], "success")
    /\ UNCHANGED <<files, disk, uploadDir, now, nextFileId, started, mode, sent>>

\* ------------------------------------------------------------------- upload
\* The handler runs on to saveFile, which reads Date.now() (the clock has not
\* gone back since it was read last) and names the blob.
StartUpload(r) ==
    /\ nextFileId + InFlight("upload") <= MaxFiles
    /\ MayStart(r)
    /\ started' = started + 1
    /\ \E s \in ShopsNow, cf \in ClientFiles \cup {NoClientFile},
          d \in KnownFolderIds \cup {Null} :
        LET q == [Idle EXCEPT !.intent = "upload", !.shop = s, !.folderId = d,
                              !.file = cf]
        IN  IF cf = NoClientFile
            THEN now' = now /\ Enter(r, q, "No file provided")
            ELSE IF ~uploadDir
            THEN now' = now /\ Enter(r, [q EXCEPT !.pc = "up_write"], "none")
            ELSE \E t \in now..MaxClock :
                    /\ now' = t
                    /\ Goto(r, [q EXCEPT !.pc = "up_write",
                                    !.path = PathOf(StorageKey(t, cf.name))])
    /\ UNCHANGED <<files, folders, disk, uploadDir, nextFileId, nextFolderId,
                   mode, sent>>

\* Faulty variant: a failed writeFile is swallowed and the handler goes on
UploadWriteSwallow(r) ==
    /\ req[r].pc = "up_write"
    /\ \/ /\ disk' = Put(disk, req[r].path, req[r].file.body)
          /\ Goto(r, [req[r] EXCEPT !.pc = "up_create"])
       \/ /\ disk' = disk
          /\ Goto(r, [req[r] EXCEPT !.pc = "up_create"])
    /\ UNCHANGED <<files, folders, uploadDir, now, nextFileId, nextFolderId,
                   started, mode, sent>>

\* saveFile: writeFile(filePath, buffer) lands, or fails and the handler throws
UploadWrite(r) ==
    /\ req[r].pc = "up_write"
    /\ \/ /\ disk' = Put(disk, req[r].path, req[r].file.body)
          /\ Goto(r, [req[r] EXCEPT !.pc = "up_create"])
       \/ /\ disk' = disk
          /\ Finish(r, req[r], "throw")
    /\ UNCHANGED <<files, folders, uploadDir, now, nextFileId, nextFolderId,
                   started, mode, sent>>

\* the row prisma.file.create writes
FileRow(q) ==
    [filename     |-> SubSeq(q.path, 3, Len(q.path)),
     originalName |-> q.file.name,
     mimeType     |-> IF q.file.type = "" THEN DefaultMime ELSE q.file.type,
     size         |-> Len(q.file.body),
     path         |-> q.path,
     shop         |-> q.shop,
     folderId     |-> q.folderId]

\* prisma.file.create: the foreign key rejects a folderId naming no Folder row
UploadCreate(r) ==
    /\ req[r].pc = "up_create"
    /\ IF FkOk(req[r].folderId)
       THEN /\ files' = Put(files, nextFileId, FileRow(req[r]))
            /\ sent' = Put(sent, nextFileId, req[r].file)
            /\ nextFileId' = nextFileId + 1
            /\ Finish(r, [req[r] EXCEPT !.fileId = nextFileId], "success")
       ELSE /\ Finish(r, req[r], "throw")
            /\ UNCHANGED <<files, sent, nextFileId>>
    /\ UNCHANGED <<folders, disk, uploadDir, now, nextFolderId, started, mode>>

\* ----------------------------------------------------------- blob deletion
\* deleteFile's unlink(filePath), issued after existsSync saw the path: it
\* removes the blob, or throws (the path went away meanwhile, or an I/O error
\* that leaves the blob).  The outcomes: <<disk after, threw>>.
Unlink(d, path) ==
    IF ExistsSync(d, path)
    THEN {<<Remove(d, path), FALSE>>, <<d, TRUE>>}
    ELSE {<<d, TRUE>>}

\* ------------------------------------------------------------------- delete
\* Faulty variant: the handler looks the file up without checking that an id
\* was posted
StartDeleteNoCheck(r) ==
    \E s \in ShopsNow, f \in KnownFileIds \cup {Null} :
        StartAction(r, [Idle EXCEPT !.intent = "delete", !.shop = s, !.fileId = f,
                                    !.pc = "d_find"], "none")

StartDelete(r) ==
    \E s \in ShopsNow, f \in KnownFileIds \cup {Null} :
        LET q == [Idle EXCEPT !.intent = "delete", !.shop = s, !.fileId = f]
        IN  IF f = Null
            THEN StartAction(r, q, "No file ID provided")
            ELSE StartAction(r, [q EXCEPT !.pc = "d_find"], "none")

\* prisma.file.findFirst, then deleteFile's existsSync
DeleteFind(r) ==
    /\ req[r].pc = "d_find"
    /\ LET found == FindFirstFile(req[r].fileId, req[r].shop)
       IN  IF found = {}
           THEN Finish(r, req[r], "File not found")
           ELSE LET p == files[req[r].fileId].path
                IN  Goto(r, [req[r] EXCEPT !.path = p,
                                !.pc = IF ExistsSync(disk, p) THEN "d_unlink"
                                       ELSE "d_meta"])
    /\ UNCHANGED <<files, folders, disk, uploadDir, now, nextFileId, nextFolderId,
                   started, mode, sent>>

\* Faulty variant: deleteFile outside any try: its throw ends the request
DeleteUnlinkNoCatch(r) ==
    /\ req[r].pc = "d_unlink"
    /\ \E o \in Unlink(disk, req[r].path) :
        /\ disk' = o[1]
        /\ IF o[2]
           THEN Finish(r, [req[r] EXCEPT !.blobErr = TRUE], "throw")
           ELSE Goto(r, [req[r] EXCEPT !.pc = "d_meta"])
    /\ UNCHANGED <<files, folders, uploadDir, now, nextFileId, nextFolderId,
                   started, mode, sent>>

\* try { await deleteFile(fileRecord.path) } catch { console.error }
DeleteUnlink(r) ==
    /\ req[r].pc = "d_unlink"
    /\ \E o \in Unlink(disk, req[r].path) :
        /\ disk' = o[1]
        /\ Goto(r, [req[r] EXCEPT !.pc = "d_meta",
                                  !.blobErr = o[2]])
    /\ UNCHANGED <<files, folders, uploadDir, now, nextFileId, nextFolderId,
                   started, mode, sent>>

\* prisma.file.delete({ where: { id } }): throws when the row is gone
DeleteMeta(r) ==
    /\ req[r].pc = "d_meta"
    /\ IF req[r].fileId \in DOMAIN files
       THEN /\ files' = Remove(files, req[r].fileId)
            /\ sent' = Remove(sent, req[r].fileId)
            /\ Finish(r, req[r], "success")
       ELSE /\ Finish(r, req[r], "throw")
            /\ UNCHANGED <<files, sent>>
    /\ UNCHANGED <<folders, disk, uploadDir, now, nextFileId, nextFolderId, started, mode>>

\* ---------------------------------------------------------------- move-file
StartMoveFile(r) ==
    \E s \in ShopsNow, f \in KnownFileIds \cup {Null}, d \in KnownFolderIds \cup {Null} :
        LET q == [Idle EXCEPT !.intent = "move-file", !.shop = s, !.fileId = f,
                              !.folderId = d]
        IN  IF f = Null
            THEN StartAction(r, q, "No file ID provided")
            ELSE StartAction(r, [q EXCEPT !.pc = "m_find"], "none")

\* prisma.file.findFirst
MoveFind(r) ==
    /\ req[r].pc = "m_find"
    /\ IF FindFirstFile(req[r].fileId, req[r].shop) = {}
       THEN Finish(r, req[r], "File not found")
       ELSE Goto(r, [req[r] EXCEPT !.pc = "m_update",
                                   !.from = files[req[r].fileId].folderId])
    /\ UNCHANGED <<files, folders, disk, uploadDir, now, nextFileId, nextFolderId,
                   started, mode, sent>>

\* Faulty variant: an update that changes nothing is rejected
UpdateOkIfChanged(id, folderId) ==
    id \in DOMAIN files /\ FkOk(folderId) /\ files[id].folderId # folderId

\* prisma.file.update({ where: { id }, data: { folderId } }): whether it can land
\* (the row exists and the foreign key accepts the folderId)
UpdateOk(id, folderId) == id \in DOMAIN files /\ FkOk(folderId)

\* Faulty variant: the update rewrites the row's size too
UpdateFolderAndSize(id, folderId) ==
    [files EXCEPT ![id].folderId = folderId, ![id].size = 0]

\* the File table after the update
UpdateFolder(id, folderId) == [files EXCEPT ![id].folderId = folderId]

MoveUpdate(r) ==
    /\ req[r].pc = "m_update"
    /\ IF UpdateOk(req[r].fileId, req[r].folderId)
       THEN /\ files' = UpdateFolder(req[r].fileId, req[r].folderId)
            /\ Finish(r, req[r], "success")
       ELSE /\ files' = files
            /\ Finish(r, req[r], "throw")
    /\ UNCHANGED <<folders, disk, uploadDir, now, nextFileId, nextFolderId,
                   started, mode, sent>>

\* ----------------------------------------------------------------- download
\* the loader of the download route: it does not call ensureUploadDir
StartDownload(r) ==
    /\ MayStart(r)
    /\ started' = started + 1
    /\ \E s \in ShopsNow, f \in KnownFileIds :
        Goto(r, [Idle EXCEPT !.pc = "dl_find", !.intent = "download", !.shop = s,
                             !.fileId = f])
    /\ UNCHANGED <<files, folders, disk, uploadDir, now, nextFileId, nextFolderId,
                   mode, sent>>

\* Faulty variant: the loader reads the blob without existsSync before
DownloadFindNoExists(r) ==
    /\ req[r].pc = "dl_find"
    /\ LET found == FindFirstFile(req[r].fileId, req[r].shop)
       IN  IF found = {}
           THEN Finish(r, req[r], "404 File not found")
           ELSE LET rec == files[req[r].fileId]
                IN  Goto(r, [req[r] EXCEPT !.pc = "dl_read", !.path = rec.path,
                                !.ctype = rec.mimeType, !.clen = rec.size])
    /\ UNCHANGED <<files, folders, disk, uploadDir, now, nextFileId, nextFolderId,
                   started, mode, sent>>

\* prisma.file.findFirst, then existsSync(fileRecord.path)
DownloadFind(r) ==
    /\ req[r].pc = "dl_find"
    /\ LET found == FindFirstFile(req[r].fileId, req[r].shop)
       IN  IF found = {}
           THEN Finish(r, req[r], "404 File not found")
           ELSE LET rec == files[req[r].fileId]
                IN  IF ~ExistsSync(disk, rec.path)
                    THEN Finish(r, req[r], "404 File not found on disk")
                    ELSE Goto(r, [req[r] EXCEPT !.pc = "dl_read", !.path = rec.path,
                                      !.ctype = rec.mimeType, !.clen = rec.size])
    /\ UNCHANGED <<files, folders, disk, uploadDir, now, nextFileId, nextFolderId,
                   started, mode, sent>>

\* readFileBuffer(fileRecord.path), then the Response
DownloadRead(r) ==
    /\ req[r].pc = "dl_read"
    /\ IF ExistsSync(disk, req[r].path)
       THEN Finish(r, [req[r] EXCEPT !.body = disk[req[r].path]], "200")
       ELSE Finish(r, [req[r] EXCEPT !.ctype = "", !.clen = 0], "throw")
    /\ UNCHANGED <<files, folders, disk, uploadDir, now, nextFileId, nextFolderId,
                   started, mode, sent>>

\* ------------------------------------------------------------ delete-folder
StartDeleteFolder(r) ==
    \E s \in ShopsNow, d \in KnownFolderIds \cup {Null} :
        LET q == [Idle EXCEPT !.intent = "delete-folder", !.shop = s, !.folderId = d]
        IN  IF d = Null
            THEN StartAction(r, q, "No folder ID provided")
            ELSE StartAction(r, [q EXCEPT !.pc = "df_find"], "none")

\* the paths of folder.files, in the order the rows came back
FolderPaths(d) ==
    {[i \in DOMAIN o |-> files[o[i]].path] : o \in SeqOfSet(FilesOfFolder(d))}

\* prisma.folder.findFirst with its files, then the loop up to its first unlink
DeleteFolderFind(r) ==
    /\ req[r].pc = "df_find"
    /\ IF FindFirstFolder(req[r].folderId, req[r].shop) = {}
       THEN Finish(r, req[r], "Folder not found")
       ELSE \E ps \in FolderPaths(req[r].folderId) :
               LET left == SkipMissing(disk, ps)
               IN  Goto(r, [req[r] EXCEPT !.paths = left,
                               !.listed = FilesOfFolder(req[r].folderId),
                               !.pc = IF left = <<>> THEN "df_delete" ELSE "df_unlink"])
    /\ UNCHANGED <<files, folders, disk, uploadDir, now, nextFileId, nextFolderId,
                   started, mode, sent>>

\* Faulty variant: the loop's deleteFile outside any try: its throw ends the request
DeleteFolderUnlinkNoCatch(r) ==
    /\ req[r].pc = "df_unlink"
    /\ \E o \in Unlink(disk, Head(req[r].paths)) :
        LET left == SkipMissing(o[1], Tail(req[r].paths))
        IN  /\ disk' = o[1]
            /\ IF o[2]
               THEN Finish(r, [req[r] EXCEPT !.blobErr = TRUE], "throw")
               ELSE Goto(r, [req[r] EXCEPT !.paths = left,
                                !.pc = IF left = <<>> THEN "df_delete" ELSE "df_unlink"])
    /\ UNCHANGED <<files, folders, uploadDir, now, nextFileId, nextFolderId,
                   started, mode, sent>>

\* try { await deleteFile(file.path) } catch { console.error }, then the loop
\* up to its next unlink
DeleteFolderUnlink(r) ==
    /\ req[r].pc = "df_unlink"
    /\ \E o \in Unlink(disk, Head(req[r].paths)) :
        LET left == SkipMissing(o[1], Tail(req[r].paths))
        IN  /\ disk' = o[1]
            /\ Goto(r, [req[r] EXCEPT !.paths = left,
                            !.blobErr = req[r].blobErr \/ o[2],
                            !.pc = IF left = <<>> THEN "df_delete" ELSE "df_unlink"])
    /\ UNCHANGED <<files, folders, uploadDir, now, nextFileId, nextFolderId,
                   started, mode, sent>>

\* prisma.folder.delete({ where: { id } }): throws when the row is gone; the
\* foreign key's ON DELETE CASCADE removes the File rows naming the folder
DeleteFolderDelete(r) ==
    /\ req[r].pc = "df_delete"
    /\ IF req[r].folderId \in DOMAIN folders
       THEN /\ folders' = Remove(folders, req[r].folderId)
            /\ files' = CascadeDelete(req[r].folderId)
            /\ sent' = [f \in DOMAIN files' |-> sent[f]]
            /\ Finish(r, req[r], "success")
       ELSE /\ Finish(r, req[r], "throw")
            /\ UNCHANGED <<files, folders, sent>>
    /\ UNCHANGED <<disk, uploadDir, now, nextFileId, nextFolderId, started, mode>>

\* -------------------------------------------------------------- bulk-delete
\* ids.filter((id) => id.startsWith(prefix))
RECURSIVE WithPrefix(_, _)
WithPrefix(ids, prefix) ==
    IF ids = <<>> THEN <<>>
    ELSE IF Head(ids)[1] = prefix
         THEN <<Head(ids)>> \o WithPrefix(Tail(ids), prefix)
         ELSE WithPrefix(Tail(ids), prefix)

\* the items of a bulk request: "file-<id>" and "folder-<id>"
KnownItems ==
    {<<"file-", f>> : f \in KnownFileIds} \cup {<<"folder-", d>> : d \in KnownFolderIds}

\* where a bulk-delete goes with the items `ids` left: the file loop, then the
\* folder loop, then return { success: true }
BulkDeleteReq(q, ids) ==
    [q EXCEPT !.ids = ids, !.paths = <<>>, !.path = <<>>, !.listed = {},
              !.fileId = IF Head(ids)[1] = "file-" THEN Head(ids)[2] ELSE Null,
              !.folderId = IF Head(ids)[1] = "folder-" THEN Head(ids)[2] ELSE Null,
              !.pc = IF Head(ids)[1] = "file-" THEN "bd_find" ELSE "bd_ffind"]

BulkDeleteAt(r, q, ids) ==
    IF ids = <<>>
    THEN Finish(r, q, "success")
    ELSE Goto(r, BulkDeleteReq(q, ids))

StartBulkDelete(r) ==
    /\ MayStart(r)
    /\ \E s \in ShopsNow :
        LET q == [Idle EXCEPT !.intent = "bulk-delete", !.shop = s]
        IN  \/ StartAction(r, q, "No items provided")      \* no itemIds field
            \/ StartAction(r, q, "throw")                  \* JSON.parse throws
            \/ \E ids \in SeqsUpTo(KnownItems, MaxItems) :
                  LET todo == WithPrefix(ids, "file-") \o WithPrefix(ids, "folder-")
                      qi == [q EXCEPT !.items = ids]
                  IN  IF todo = <<>>
                      THEN StartAction(r, qi, "success")
                      ELSE StartAction(r, BulkDeleteReq(qi, todo), "none")

\* Faulty variant: an item whose row is not found ends the request with a throw
BulkDeleteFindAbort(r) ==
    /\ req[r].pc = "bd_find"
    /\ IF FindFirstFile(req[r].fileId, req[r].shop) = {}
       THEN Finish(r, req[r], "throw")
       ELSE LET p == files[req[r].fileId].path
            IN  Goto(r, [req[r] EXCEPT !.path = p,
                            !.pc = IF ExistsSync(disk, p) THEN "bd_unlink" ELSE "bd_meta"])
    /\ UNCHANGED <<files, folders, disk, uploadDir, now, nextFileId, nextFolderId,
                   started, mode, sent>>

\* file loop: prisma.file.findFirst, then deleteFile's existsSync
BulkDeleteFind(r) ==
    /\ req[r].pc = "bd_find"
    /\ IF FindFirstFile(req[r].fileId, req[r].shop) = {}
       THEN BulkDeleteAt(r, req[r], Tail(req[r].ids))
       ELSE LET p == files[req[r].fileId].path
            IN  Goto(r, [req[r] EXCEPT !.path = p,
                            !.pc = IF ExistsSync(disk, p) THEN "bd_unlink" ELSE "bd_meta"])
    /\ UNCHANGED <<files, folders, disk, uploadDir, now, nextFileId, nextFolderId,
                   started, mode, sent>>

\* file loop: try { await deleteFile(path); await prisma.file.delete(...) }
\* catch { console.error }: a throw of deleteFile skips the row's delete
BulkDeleteUnlink(r) ==
    /\ req[r].pc = "bd_unlink"
    /\ \E o \in Unlink(disk, req[r].path) :
        /\ disk' = o[1]
        /\ IF o[2]
           THEN BulkDeleteAt(r, [req[r] EXCEPT !.blobErr = TRUE], Tail(req[r].ids))
           ELSE Goto(r, [req[r] EXCEPT !.pc = "bd_meta"])
    /\ UNCHANGED <<files, folders, uploadDir, now, nextFileId, nextFolderId,
                   started, mode, sent>>

\* file loop: prisma.file.delete, its throw caught
BulkDeleteMeta(r) ==
    /\ req[r].pc = "bd_meta"
    /\ IF req[r].fileId \in DOMAIN files
       THEN /\ files' = Remove(files, req[r].fileId)
            /\ sent' = Remove(sent, req[r].fileId)
            /\ BulkDeleteAt(r, req[r], Tail(req[r].ids))
       ELSE /\ UNCHANGED <<files, sent>>
            /\ BulkDeleteAt(r, [req[r] EXCEPT !.storeErr = TRUE], Tail(req[r].ids))
    /\ UNCHANGED <<folders, disk, uploadDir, now, nextFileId, nextFolderId,
                   started, mode>>

\* folder loop: prisma.folder.findFirst with its files
BulkDeleteFolderFind(r) ==
    /\ req[r].pc = "bd_ffind"
    /\ IF FindFirstFolder(req[r].folderId, req[r].shop) = {}
       THEN BulkDeleteAt(r, req[r], Tail(req[r].ids))
       ELSE \E ps \in FolderPaths(req[r].folderId) :
               LET left == SkipMissing(disk, ps)
               IN  Goto(r, [req[r] EXCEPT !.paths = left,
                               !.listed = FilesOfFolder(req[r].folderId),
                               !.pc = IF left = <<>> THEN "bd_fdelete" ELSE "bd_funlink"])
    /\ UNCHANGED <<files, folders, disk, uploadDir, now, nextFileId, nextFolderId,
                   started, mode, sent>>

\* folder loop: the blobs of the folder's files, each in its own try/catch
BulkDeleteFolderUnlink(r) ==
    /\ req[r].pc = "bd_funlink"
    /\ \E o \in Unlink(disk, Head(req[r].paths)) :
        LET left == SkipMissing(o[1], Tail(req[r].paths))
        IN  /\ disk' = o[1]
            /\ Goto(r, [req[r] EXCEPT !.paths = left,
                            !.blobErr = req[r].blobErr \/ o[2],
                            !.pc = IF left = <<>> THEN "bd_fdelete" ELSE "bd_funlink"])
    /\ UNCHANGED <<files, folders, uploadDir, now, nextFileId, nextFolderId,
                   started, mode, sent>>

\* folder loop: prisma.folder.delete, outside any try: its throw ends the request
BulkDeleteFolderDelete(r) ==
    /\ req[r].pc = "bd_fdelete"
    /\ IF req[r].folderId \in DOMAIN folders
       THEN /\ folders' = Remove(folders, req[r].folderId)
            /\ files' = CascadeDelete(req[r].folderId)
            /\ sent' = [f \in DOMAIN files' |-> sent[f]]
            /\ BulkDeleteAt(r, req[r], Tail(req[r].ids))
       ELSE /\ Finish(r, req[r], "throw")
            /\ UNCHANGED <<files, folders, sent>>
    /\ UNCHANGED <<disk, uploadDir, now, nextFileId, nextFolderId, started, mode>>

\* ---------------------------------------------------------------- bulk-move
\* where a bulk-move goes with the items `ids` left
BulkMoveReq(q, ids) ==
    [q EXCEPT !.ids = ids, !.fileId = Head(ids)[2], !.pc = "bm_update"]

BulkMoveAt(r, q, ids) ==
    IF ids = <<>>
    THEN Finish(r, q, "success")
    ELSE Goto(r, BulkMoveReq(q, ids))

StartBulkMove(r) ==
    /\ MayStart(r)
    /\ \E s \in ShopsNow, d \in KnownFolderIds \cup {Null} :
        LET q == [Idle EXCEPT !.intent = "bulk-move", !.shop = s, !.folderId = d]
        IN  \/ StartAction(r, q, "No files provided")      \* no fileIds field
            \/ StartAction(r, q, "throw")                  \* JSON.parse throws
            \/ \E ids \in SeqsUpTo({<<"file-", f>> : f \in KnownFileIds}, MaxItems) :
                  LET qi == [q EXCEPT !.items = ids]
                  IN  IF ids = <<>>
                      THEN StartAction(r, qi, "success")
                      ELSE StartAction(r, BulkMoveReq(qi, ids), "none")

\* prisma.file.update({ where: { id: fileId }, data: { folderId } }), outside
\* any try: its throw ends the request
BulkMoveUpdate(r) ==
    /\ req[r].pc = "bm_update"
    /\ IF UpdateOk(req[r].fileId, req[r].folderId)
       THEN /\ files' = UpdateFolder(req[r].fileId, req[r].folderId)
            /\ BulkMoveAt(r, req[r], Tail(req[r].ids))
       ELSE /\ files' = files
            /\ Finish(r, req[r], "throw")
    /\ UNCHANGED <<folders, disk, uploadDir, now, nextFileId, nextFolderId,
                   started, mode, sent>>

Step(r) ==
    \/ Mkdir(r) \/ StartInvalid(r)
    \/ StartCreateFolder(r) \/ CreateFolder(r)
    \/ StartUpload(r) \/ UploadWrite(r) \/ UploadCreate(r)
    \/ StartDelete(r) \/ DeleteFind(r) \/ DeleteUnlink(r) \/ DeleteMeta(r)
    \/ StartDeleteFolder(r) \/ DeleteFolderFind(r) \/ DeleteFolderUnlink(r)
    \/ DeleteFolderDelete(r)
    \/ StartBulkDelete(r) \/ BulkDeleteFind(r) \/ BulkDeleteUnlink(r)
    \/ BulkDeleteMeta(r) \/ BulkDeleteFolderFind(r) \/ BulkDeleteFolderUnlink(r)
    \/ BulkDeleteFolderDelete(r)
    \/ StartBulkMove(r) \/ BulkMoveUpdate(r)
    \/ StartMoveFile(r) \/ MoveFind(r) \/ MoveUpdate(r)
    \/ StartDownload(r) \/ DownloadFind(r) \/ DownloadRead(r)

Next == \E r \in Reqs : Step(r)

\* requests handled one at a time
Spec == InitSeq /\ [][Next]_vars

\* requests that overlap: every await is a point where the other request may run
SpecConc == InitConc /\ [][Next]_vars

\* requests that overlap in a store the first requests have filled
SpecRace == InitRace /\ [][Next]_vars

\* ==================================================================== claims
Ended == last.pc = "done"

\* the single-item request q names an existing File or Folder of another shop
Foreign(q) ==
    \/ /\ q.intent \in {"delete", "move-file", "download"}
       /\ q.fileId \in DOMAIN files
       /\ files[q.fileId].shop # q.shop
    \/ /\ q.intent = "delete-folder"
       /\ q.folderId \in DOMAIN folders
       /\ folders[q.folderId].shop # q.shop

NotFoundResults == {"File not found", "Folder not found", "404 File not found"}

\* C1: a Delete File, Delete Folder, Move File or Download issued by one shop
\* with the identifier of another shop's File or Folder ends at its lookup with
\* a not-found response that carries no content, and the step changes no File
\* row, no Folder row and no blob.
C1_TenantIsolation ==
    [][\A r \in Reqs :
          (StepOf(r) /\ ~Free(r) /\ req[r].pc # "mkdir" /\ Foreign(req[r])) =>
              /\ files' = files /\ folders' = folders /\ disk' = disk
              /\ Free(r)'
              /\ last'.pc = "done" /\ last'.result \in NotFoundResults
              /\ last'.body = <<>>]_vars

C1_Witness ==
    /\ Ended /\ Foreign(last)
    /\ last.intent = "delete" /\ last.result = "File not found"
    /\ files[last.fileId].path \in DOMAIN disk

\* C2: no step of a Bulk Move or Bulk Delete changes or deletes a File row, or
\* deletes a Folder row, of a shop other than the requesting one.
C2_BulkIsolation ==
    [][\A r \in Reqs :
          (StepOf(r) /\ req[r].intent \in {"bulk-move", "bulk-delete"}) =>
              /\ \A f \in DOMAIN files :
                    files[f].shop # req[r].shop =>
                        f \in DOMAIN files' /\ files'[f] = files[f]
              /\ \A d \in DOMAIN folders :
                    folders[d].shop # req[r].shop => d \in DOMAIN folders']_vars

\* C3: every File row with a non-null folderId names a Folder row of the File's
\* own shop.
C3_SameTenantFolder ==
    \A f \in DOMAIN files :
        files[f].folderId # Null =>
            /\ files[f].folderId \in DOMAIN folders
            /\ folders[files[f].folderId].shop = files[f].shop

\* C4: no two File rows share a storage path.
C4_DistinctKeys ==
    \A f, g \in DOMAIN files : f # g => files[f].path # files[g].path

\* C5: a Download of a File row that exists, by its shop, answers 200 with the
\* bytes that were uploaded for it, their length, and the uploaded MIME type (the
\* default when there was none).
C5_RoundTrip ==
    (/\ Ended /\ last.intent = "download"
     /\ last.fileId \in DOMAIN files
     /\ files[last.fileId].shop = last.shop) =>
        /\ last.result = "200"
        /\ last.body = sent[last.fileId].body
        /\ last.clen = Len(sent[last.fileId].body)
        /\ last.ctype = (IF sent[last.fileId].type = "" THEN DefaultMime
                         ELSE sent[last.fileId].type)

\* C6: an Upload whose blob write fails ends there with a throw and creates no
\* File row; the handler reaches prisma.file.create only from a blob write that
\* has landed, and a File row is created only there, with the path written.
C6_CreateAfterWrite ==
    [][\A r \in Reqs :
          StepOf(r) =>
              /\ (req[r].pc = "up_write" /\ req'[r].pc # "up_create") =>
                    /\ Free(r)' /\ last'.result = "throw"
                    /\ files' = files /\ disk' = disk
              /\ req'[r].pc = "up_create" =>
                    /\ req[r].pc = "up_write"
                    /\ req[r].path \in DOMAIN disk'
                    /\ disk'[req[r].path] = req[r].file.body
              /\ \A f \in DOMAIN files' \ DOMAIN files :
                    /\ req[r].pc = "up_create"
                    /\ files'[f].path = req[r].path]_vars

C6_Witness ==
    /\ Ended /\ last.intent = "upload" /\ last.result = "throw"
    /\ disk = <<>> /\ files = <<>>

\* C7: a Delete File that found the row of its shop ends with success and the
\* row gone, also when the blob's unlink threw or the blob was not on disk.
C7_DeleteBestEffort ==
    (/\ Ended /\ last.intent = "delete"
     /\ last.result \notin {"File not found", "No file ID provided"}) =>
        /\ last.result = "success"
        /\ last.fileId \notin DOMAIN files

C7_Witness ==
    /\ Ended /\ last.intent = "delete" /\ last.result = "success"
    /\ last.blobErr
    /\ last.fileId \notin DOMAIN files

\* s is t without some of its first elements
IsSuffix(s, t) ==
    \E k \in 0..Len(t) : s = SubSeq(t, k + 1, Len(t))

\* C8: in Delete Folder a throw of one blob's unlink does not end the request:
\* the loop goes on over the remaining paths (passing over only paths that are
\* not on disk) to the folder's delete, which removes the Folder row and every
\* File row naming it and answers success.
C8_FolderBlobsIndependent ==
    [][\A r \in Reqs :
          (StepOf(r) /\ req[r].intent = "delete-folder") =>
              /\ req[r].pc = "df_unlink" =>
                    /\ req'[r].pc \in {"df_unlink", "df_delete"}
                    /\ IsSuffix(req'[r].paths, Tail(req[r].paths))
                    /\ \A i \in 1..(Len(req[r].paths) - Len(req'[r].paths)) :
                          \/ req[r].paths[i] \notin DOMAIN disk'
                          \/ i = 1 /\ req'[r].blobErr
                    /\ req'[r].pc = "df_delete" <=> req'[r].paths = <<>>
              /\ (req[r].pc = "df_delete" /\ req[r].folderId \in DOMAIN folders) =>
                    /\ req[r].folderId \notin DOMAIN folders'
                    /\ \A f \in DOMAIN files' :
                          files'[f].folderId # req[r].folderId
                    /\ last'.result = "success"]_vars

C8_Witness ==
    \E r \in Reqs :
        /\ req[r].pc = "df_unlink" /\ req[r].blobErr
        /\ Len(req[r].paths) = 1

\* C9: when Delete Folder succeeds, no File row names the folder any more, and
\* every file that was in it is gone: findFirst does not find it and neither
\* listing of its shop returns it.
C9_FolderCascade ==
    [][\A r \in Reqs, d \in FolderIds :
          (/\ StepOf(r) /\ req[r].pc = "df_delete" /\ req[r].folderId = d
           /\ last'.pc = "done" /\ last'.result = "success") =>
              /\ FilesOfFolder(d)' = {}
              /\ \A f \in FilesOfFolder(d) :
                    /\ f \notin DOMAIN files'
                    /\ \A s \in Shops :
                          /\ FindFirstFile(f, s)' = {}
                          /\ f \notin ListFilesAll(s)'
                          /\ f \notin ListFilesIn(s, d)'
                          /\ f \notin ListFilesIn(s, Null)']_vars

C9_Witness ==
    /\ Ended /\ last.intent = "delete-folder" /\ last.result = "success"
    /\ nextFileId = 3 /\ files = <<>>
    /\ \A s \in Shops : ListFilesAll(s) = {}

\* C10: every non-null File.folderId is the id of an existing Folder row.
C10_ReferentialIntegrity ==
    \A f \in DOMAIN files :
        files[f].folderId = Null \/ files[f].folderId \in DOMAIN folders

C10_Witness ==
    /\ Ended /\ last.intent = "move-file" /\ last.result = "throw"
    /\ last.fileId \in DOMAIN files
    /\ last.folderId # Null /\ last.folderId \notin DOMAIN folders
    /\ C10_ReferentialIntegrity

\* another request's Delete File of the same file, by the same shop, has just
\* deleted the record while the Delete File of slot r is in flight
JustDeleted(r) ==
    /\ req[r].intent = "delete" /\ ~Free(r)
    /\ Ended /\ last.intent = "delete" /\ last.result = "success"
    /\ last.fileId = req[r].fileId /\ last.shop = req[r].shop

\* C11: of two Delete File requests of one shop on the same file, the one that
\* does not delete the record ends with the "File not found" result, wherever
\* it stood (lookup, blob delete or metadata delete) when the other deleted it,
\* and does not throw.
C11_DoubleDelete ==
    [][\A r \in Reqs :
          (StepOf(r) /\ JustDeleted(r) /\ Free(r)') =>
              /\ last'.result = "File not found"
              /\ files' = files]_vars

\* a Delete File and a Move File of one shop on the same file: the request of
\* slot r is in flight and the other has just landed its metadata write
RacedBy(r, other) ==
    /\ ~Free(r)
    /\ Ended /\ last.intent = other /\ last.result = "success"
    /\ last.fileId = req[r].fileId /\ last.shop = req[r].shop

\* C12: when a Delete File has just deleted the record, a Move File of the same
\* file (to the root or to an existing folder) that ends next ends with "File
\* not found"; when a Move File has just landed, a Delete File of the same file
\* that ends next ends with success; in both cases the record is gone, and
\* neither request throws.
C12_DeleteMoveRace ==
    [][\A r \in Reqs :
          (StepOf(r) /\ Free(r)') =>
              /\ (/\ req[r].intent = "move-file" /\ RacedBy(r, "delete")
                  /\ FkOk(req[r].folderId)) =>
                    /\ last'.result = "File not found"
                    /\ req[r].fileId \notin DOMAIN files'
              /\ (req[r].intent = "delete" /\ RacedBy(r, "move-file")) =>
                    /\ last'.result = "success"
                    /\ req[r].fileId \notin DOMAIN files']_vars

\* the item names a row of the shop in the File table fs or the Folder table ds
ValidItem(item, shop, fs, ds) ==
    \/ /\ item[1] = "file-"
       /\ item[2] \in DOMAIN fs /\ fs[item[2]].shop = shop
    \/ /\ item[1] = "folder-"
       /\ item[2] \in DOMAIN ds /\ ds[item[2]].shop = shop

\* C13: whatever happens to the item a Bulk Delete is handling, the request
\* does not end while an item after it still names an existing File or Folder
\* of the shop.
C13_BulkDeleteIndependent ==
    [][\A r \in Reqs :
          (StepOf(r) /\ req[r].intent = "bulk-delete" /\ ~Free(r) /\ Free(r)') =>
              \A i \in 2..Len(req[r].ids) :
                  ~ValidItem(req[r].ids[i], req[r].shop, files', folders')]_vars

\* C14: a Bulk Delete whose item list is one file of the requesting shop ends
\* with that File row deleted, as Delete File does, whether the blob's unlink
\* succeeded, threw, or the blob was not on disk.
C14_BulkDeleteAsDelete ==
    [][\A r \in Reqs, f \in 1..MaxFiles :
          (/\ StepOf(r) /\ req[r].intent = "bulk-delete" /\ ~Free(r) /\ Free(r)'
           /\ req[r].items = << <<"file-", f>> >>
           /\ FindFirstFile(f, req[r].shop) # {}) =>
              f \notin DOMAIN files']_vars

\* C15: a Bulk Move to the root or to an existing folder does not throw, and
\* when it ends every file of its list that exists and is of the requesting
\* shop has the target folderId, also when the list names a file that does not
\* exist, before or after the others.
C15_BulkMoveIndependent ==
    [][\A r \in Reqs :
          (/\ StepOf(r) /\ req[r].intent = "bulk-move" /\ ~Free(r) /\ Free(r)'
           /\ FkOk(req[r].folderId)) =>
              \A i \in DOMAIN req[r].items :
                  ValidItem(req[r].items[i], req[r].shop, files', folders') =>
                      /\ files'[req[r].items[i][2]].folderId = req[r].folderId
                      /\ last'.result = "success"]_vars

\* the blob error flag of request r after the step
BlobErrAfter(r) == IF Free(r)' THEN last'.blobErr ELSE req'[r].blobErr

\* request r goes on to the item after the one it is handling, or ends with
\* success when there is none
NextItem(r) ==
    IF Len(req[r].ids) = 1
    THEN Free(r)' /\ last'.result = "success"
    ELSE ~Free(r)' /\ req'[r].ids = Tail(req[r].ids)

\* C16: with requests handled one at a time, a Bulk Delete passes over a file
\* item whose row is gone without changing anything and without ending; for a
\* file item whose row it found it removes the blob (unless the unlink throws)
\* and then the row; and when no unlink threw it ends with success and no File
\* of the shop named in its list is left, in whatever order the list is.
C16_BulkPartialFailure ==
    [][\A r \in Reqs :
          (/\ StepOf(r) /\ req[r].intent = "bulk-delete"
           /\ ~Free(r) /\ req[r].pc # "mkdir") =>
              /\ (/\ req[r].pc = "bd_find"
                  /\ FindFirstFile(req[r].fileId, req[r].shop) = {}) =>
                    /\ files' = files /\ disk' = disk
                    /\ NextItem(r)
              /\ (req[r].pc = "bd_unlink" /\ ~BlobErrAfter(r)) =>
                    /\ req'[r].pc = "bd_meta"
                    /\ req[r].path \notin DOMAIN disk'
              /\ (req[r].pc = "bd_meta" /\ req[r].fileId \in DOMAIN files) =>
                    /\ req[r].fileId \notin DOMAIN files'
                    /\ req[r].path \notin DOMAIN disk'
                    /\ NextItem(r)
              /\ (Free(r)' /\ ~last'.blobErr) =>
                    /\ last'.result = "success"
                    /\ \A i \in DOMAIN req[r].items :
                          req[r].items[i][1] = "file-" =>
                              ~ValidItem(req[r].items[i], req[r].shop, files', folders')]_vars

\* the list names file 1, which was deleted before, and then file 2: the
\* request has passed over file 1, removed the blob of file 2 and is about to
\* delete its row
C16_Witness ==
    \E r \in Reqs :
        /\ req[r].intent = "bulk-delete" /\ req[r].pc = "bd_meta"
        /\ req[r].items = << <<"file-", 1>>, <<"file-", 2>> >>
        /\ req[r].ids = << <<"file-", 2>> >>
        /\ nextFileId = 3
        /\ 1 \notin DOMAIN files
        /\ 2 \in DOMAIN files /\ files[2].shop = req[r].shop
        /\ files[2].path \notin DOMAIN disk
        /\ ~req[r].blobErr

\* C17: a step of a Move File or Bulk Move writes no blob and deletes none,
\* changes no Folder row, creates and deletes no File row, and changes at most
\* the folderId of the one File row it is moving: that row's filename,
\* originalName, mimeType, size, path and shop stay as they were.
C17_MovePreservesBlob ==
    [][\A r \in Reqs :
          (/\ StepOf(r)
           /\ {req[r].intent, req'[r].intent} \cap {"move-file", "bulk-move"} # {}) =>
              /\ disk' = disk /\ folders' = folders /\ sent' = sent
              /\ DOMAIN files' = DOMAIN files
              /\ \A f \in DOMAIN files :
                    \/ files'[f] = files[f]
                    \/ /\ f = req[r].fileId
                       /\ files'[f] = [files[f] EXCEPT !.folderId = req[r].folderId]]_vars

C17_Witness ==
    /\ Ended /\ last.intent = "bulk-move" /\ last.result = "success"
    /\ last.folderId # Null
    /\ last.fileId \in DOMAIN files
    /\ files[last.fileId].folderId = last.folderId
    /\ files[last.fileId].path \in DOMAIN disk
    /\ disk[files[last.fileId].path] = sent[last.fileId].body
    /\ files[last.fileId].size = Len(sent[last.fileId].body)

\* the File row the download names is of the requesting shop
OwnRecord(q) ==
    q.fileId \in DOMAIN files /\ files[q.fileId].shop = q.shop

\* C18: with requests handled one at a time, a Download ends with 404 "File
\* not found" and no body when the File row is missing or of another shop,
\* with 404 "File not found on disk" and no body when the row is there and its
\* blob is not, and with 200 and the blob's bytes otherwise.
C18_DownloadNotFound ==
    (Ended /\ last.intent = "download") =>
        IF ~OwnRecord(last)
        THEN last.result = "404 File not found" /\ last.body = <<>>
        ELSE IF files[last.fileId].path \notin DOMAIN disk
        THEN last.result = "404 File not found on disk" /\ last.body = <<>>
        ELSE last.result = "200" /\ last.body = disk[files[last.fileId].path]

C18_Witness ==
    /\ Ended /\ last.intent = "download"
    /\ last.result = "404 File not found on disk"
    /\ OwnRecord(last)
    /\ disk = <<>>

\* C19: every File row's size is the length of the bytes uploaded for it, and
\* every Download that answers 200 sends a Content-Length (the row's size)
\* equal to the length of the body it returns.
C19_SizeIsLength ==
    /\ \A f \in DOMAIN files : files[f].size = Len(sent[f].body)
    /\ (Ended /\ last.intent = "download" /\ last.result = "200") =>
           last.clen = Len(last.body)

ActionIntents ==
    {"create-folder", "upload", "delete", "delete-folder", "move-file",
     "bulk-delete", "bulk-move"}

\* C20: no request of the action (create-folder, upload, delete, delete-folder,
\* move-file, bulk-delete, bulk-move) ends with a throw: each returns success
\* or an error message.
C20_NoUnstructuredFault ==
    (Ended /\ last.intent \in ActionIntents) => last.result # "throw"

\* the error messages the action returns for a missing input
ValidationErrors ==
    {"Folder name is required", "No file provided", "No file ID provided",
     "No folder ID provided", "No items provided", "No files provided",
     "Invalid intent"}

\* the message request q gets when a required input of it is missing
MissingInput(q) ==
    IF q.intent = "upload" /\ q.file = NoClientFile THEN "No file provided"
    ELSE IF q.intent \in {"delete", "move-file"} /\ q.fileId = Null
    THEN "No file ID provided"
    ELSE IF q.intent = "delete-folder" /\ q.folderId = Null
    THEN "No folder ID provided"
    ELSE IF q.intent = "invalid" THEN "Invalid intent"
    ELSE "none"

Blank(raw) == \A k \in DOMAIN raw : raw[k] = " "

\* t is raw without the blanks at its two ends
IsTrimmed(t, raw) ==
    /\ t # <<>> /\ Head(t) # " " /\ t[Len(t)] # " "
    /\ \E i \in 0..Len(raw) :
          /\ i + Len(t) <= Len(raw)
          /\ SubSeq(raw, i + 1, i + Len(t)) = t
          /\ \A k \in (1..i) \cup ((i + Len(t) + 1)..Len(raw)) : raw[k] = " "

\* C22: a create-folder whose name is missing or all blanks ends with "Folder
\* name is required" and no Folder row created; with any other name it ends
\* with success and exactly one new Folder row, of the requesting shop, named
\* by the posted name without the blanks around it, whether or not the shop has
\* a folder of that name; no other Folder row changes.
C22_CreateFolder ==
    [][\A r \in Reqs :
          (StepOf(r) /\ Free(r)' /\ last'.intent = "create-folder") =>
              IF Blank(last'.name)
              THEN /\ last'.result = "Folder name is required"
                   /\ folders' = folders
              ELSE /\ last'.result = "success"
                   /\ \E d \in DOMAIN folders' \ DOMAIN folders :
                         /\ DOMAIN folders' = DOMAIN folders \cup {d}
                         /\ folders'[d].shop = last'.shop
                         /\ IsTrimmed(folders'[d].name, last'.name)
                   /\ \A e \in DOMAIN folders : folders'[e] = folders[e]]_vars

C22_Witness ==
    /\ Ended /\ last.intent = "create-folder" /\ last.result = "success"
    /\ last.name = <<" ", "n", " ">>
    /\ DOMAIN folders = {1, 2}
    /\ folders[1] = folders[2]
    /\ folders[2] = [name |-> <<"n">>, shop |-> last.shop]

\* C23: for every shop, the unrestricted listing is the shop's File rows, the
\* listing of a folder (or of the root) is the shop's File rows with that
\* folderId, the folder listing is the shop's Folder rows, and every file that
\* comes with a listed folder or that the folder-files loader returns is a File
\* row of the shop.
C23_ListingIsolation ==
    \A s \in Shops :
        /\ \A f \in DOMAIN files :
              /\ f \in ListFilesAll(s) <=> files[f].shop = s
              /\ \A d \in FolderIds \cup {Null} :
                    f \in ListFilesIn(s, d) <=>
                        (files[f].shop = s /\ files[f].folderId = d)
        /\ \A d \in DOMAIN folders : d \in ListFolders(s) <=> folders[d].shop = s
        /\ \A d \in ListFolders(s) :
              \A f \in FilesOfFolder(d) \cup FolderFiles(d, s) : files[f].shop = s

\* C24: a deleteFile of a path that is not on disk awaits nothing, raises
\* nothing and leaves the disk as it is: the Delete File or Bulk Delete that
\* calls it for a File row it found goes straight on to the row's delete with
\* no blob error recorded.
C24_DeleteBlobIdempotent ==
    [][\A r \in Reqs :
          (/\ StepOf(r) /\ req[r].pc \in {"d_find", "bd_find"}
           /\ FindFirstFile(req[r].fileId, req[r].shop) # {}
           /\ files[req[r].fileId].path \notin DOMAIN disk) =>
              /\ disk' = disk
              /\ req'[r].pc = (IF req[r].pc = "d_find" THEN "d_meta" ELSE "bd_meta")
              /\ req'[r].blobErr = req[r].blobErr
              /\ faulted' = faulted]_vars

\* two File rows with one path, deleted by one Bulk Delete after the two
\* uploads: the first deleteFile removed the blob, the second found no blob
\* and did nothing, with no error
C24_Witness ==
    \E r \in Reqs :
        /\ req[r].intent = "bulk-delete" /\ req[r].pc = "bd_meta"
        /\ req[r].items = << <<"file-", 1>>, <<"file-", 2>> >>
        /\ req[r].ids = << <<"file-", 2>> >>
        /\ started = 3 /\ nextFileId = 3 /\ now = 0
        /\ 1 \notin DOMAIN files /\ 2 \in DOMAIN files
        /\ req[r].path = files[2].path
        /\ disk = <<>>
        /\ ~req[r].blobErr /\ ~faulted

\* C25: every mkdir of ensureUploadDir completes, also when another request
\* created the directory after this one's existsSync: the directory is there
\* afterwards, nothing is recorded as failed, and the handler goes on to what
\* it was about to do; the directory never goes away, and every request of the
\* action that is past ensureUploadDir finds it there.
C25_EnsureUploadDir ==
    [][\A r \in Reqs :
          StepOf(r) =>
              /\ uploadDir => uploadDir'
              /\ req[r].pc = "mkdir" =>
                    /\ uploadDir'
                    /\ faulted' = faulted
                    /\ IF req[r].result = "none"
                       THEN ~Free(r)' /\ req'[r].pc = req[r].after
                       ELSE Free(r)' /\ last'.result = req[r].result
              /\ (~Free(r)' /\ req'[r].intent # "download"
                  /\ req'[r].pc # "mkdir") => uploadDir']_vars

\* a request that saw no directory is about to call mkdir, and the directory
\* is there: another request's mkdir created it meanwhile
C25_Witness ==
    \E r \in Reqs : req[r].pc = "mkdir" /\ uploadDir

\* C26: with requests handled one at a time, a Move File of a file of the
\* requesting shop to the folder it is in (or to the root when it is at the
\* root) ends with success and leaves the File table as it is; a Move File to
\* the root or to an existing folder ends with success and the file's folderId
\* the target, whatever it was before, so a second move to the same target
\* changes nothing; and a Move File of a file that is not a File of the shop
\* ends with "File not found" and changes no File row.
C26_MoveIdempotent ==
    [][\A r \in Reqs :
          (StepOf(r) /\ req[r].intent = "move-file") =>
              /\ (req[r].pc = "m_update" /\ req[r].from = req[r].folderId) =>
                    /\ last'.result = "success"
                    /\ files' = files
              /\ (req[r].pc = "m_update" /\ FkOk(req[r].folderId)) =>
                    /\ last'.result = "success"
                    /\ files'[req[r].fileId].folderId = req[r].folderId
              /\ (/\ req[r].pc = "m_find"
                  /\ FindFirstFile(req[r].fileId, req[r].shop) = {}) =>
                    /\ last'.result = "File not found"
                    /\ files' = files]_vars

C26_Witness ==
    /\ Ended /\ last.intent = "move-file" /\ last.result = "success"
    /\ last.folderId # Null /\ last.from = last.folderId
    /\ files[last.fileId].folderId = last.folderId
    /\ files[last.fileId].shop = last.shop

\* C27: when the folder delete of a Delete Folder, or of a folder item of a
\* Bulk Delete, lands, every File row the cascade removes is one the request
\* had listed with the folder, so that the loop called deleteFile for its blob.
C27_CascadeAfterBlobs ==
    [][\A r \in Reqs :
          (/\ StepOf(r) /\ req[r].pc \in {"df_delete", "bd_fdelete"}
           /\ req[r].folderId \in DOMAIN folders) =>
              \A f \in DOMAIN files \ DOMAIN files' : f \in req[r].listed]_vars

\* C28: no step of a Delete Folder deletes a File row of a shop other than the
\* requesting one, or the blob of such a row.
C28_DeleteFolderIsolation ==
    [][\A r \in Reqs :
          (StepOf(r) /\ req[r].intent = "delete-folder") =>
              \A f \in DOMAIN files :
                  files[f].shop # req[r].shop =>
                      /\ f \in DOMAIN files'
                      /\ files[f].path \in DOMAIN disk =>
                            files[f].path \in DOMAIN disk']_vars

\* C29: no step of a Delete File, or of a Bulk Delete handling a file item,
\* changes or deletes a File row other than the one it is deleting, or removes
\* from disk the blob of such a row.
C29_DeleteFrame ==
    [][\A r \in Reqs :
          (/\ StepOf(r)
           /\ req[r].pc \in {"d_find", "d_unlink", "d_meta",
                             "bd_find", "bd_unlink", "bd_meta"}) =>
              \A g \in DOMAIN files \ {req[r].fileId} :
                  /\ g \in DOMAIN files' /\ files'[g] = files[g]
                  /\ files[g].path \in DOMAIN disk =>
                        files[g].path \in DOMAIN disk']_vars

\* no request is in flight
AtRest == \A r \in Reqs : Free(r)

\* C30: when no store or filesystem call has failed and no request is in
\* flight, the paths on disk are the paths of the File rows.
C30_ConsistentAtRest ==
    (AtRest /\ ~faulted) =>
        DOMAIN disk = {files[f].path : f \in DOMAIN files}

====
